---------------------------- MODULE Spec2Model ----------------------------
(***************************************************************************)
(* The refresh pipeline of the country API (src/server.js).                *)
(*                                                                         *)
(* src/server.js holds two programs one after the other: the "app"        *)
(* program (lines 1-293) and the "server" program (lines 295-506).  The   *)
(* variable `variant` says which of the two is running; every handler is   *)
(* translated for both.                                                    *)
(*                                                                         *)
(* One action of the model is one run-to-completion step of the Node.js    *)
(* event loop: from the completion of an awaited I/O operation to the next *)
(* await of the handler (promise continuations are microtasks and are not  *)
(* interleaved with other handlers).                                       *)
(*                                                                         *)
(* Values: a JavaScript value that may be null/undefined is a sequence of  *)
(* length 0 (null) or 1 (the value).  A string that the code converts      *)
(* (names, currency codes) is a sequence of one-character strings; other   *)
(* strings are opaque.  A number that the code divides is a rational       *)
(* [num, den] in lowest terms.                                             *)
(***************************************************************************)
EXTENDS Integers, Sequences, FiniteSets, TLC

\* ------------------------------------------------------------------ bounds

\* Number of concurrently open POST /countries/refresh requests.
NumReqs == 2

\* Number of refresh requests that may arrive in one behaviour.
MaxArrivals == 2

\* The wall clock (new Date()) runs from 0 to MaxClock.
MaxClock == 1

\* Math.random() is drawn from {k / RandDen : k \in RandSamples}.
RandDen == 1000

RandSamples == {0, RandDen - 1}

\* ------------------------------------------------------------ JS values

Null == << >>

Some(v) == << v >>

IsNull(v) == v = Null

Val(v) == v[1]

\* JavaScript truthiness of an optional opaque string: null and "" are falsy.
TruthyStr(v) == ~IsNull(v) /\ Val(v) # ""

\* JavaScript truthiness of an optional character string.
TruthyChars(v) == ~IsNull(v) /\ Len(Val(v)) > 0

\* JavaScript truthiness of an optional number: null and 0 are falsy.
TruthyNum(v) == ~IsNull(v) /\ Val(v) # 0

\* x || null for an optional opaque string.
OrNullStr(v) == IF TruthyStr(v) THEN v ELSE Null

\* x || null for an optional character string.
OrNullChars(v) == IF TruthyChars(v) THEN v ELSE Null

\* ------------------------------------------------------- string helpers

IsSpace(c) == c = " "

toLowerCaseChar(c) ==
    CASE c = "A" -> "a"
      [] c = "B" -> "b"
      [] c = "C" -> "c"
      [] c = "G" -> "g"
      [] c = "N" -> "n"
      [] c = "X" -> "x"
      [] OTHER -> c

toUpperCaseChar(c) ==
    CASE c = "a" -> "A"
      [] c = "b" -> "B"
      [] c = "c" -> "C"
      [] c = "g" -> "G"
      [] c = "n" -> "N"
      [] c = "x" -> "X"
      [] OTHER -> c

toLowerCase(s) == [i \in 1..Len(s) |-> toLowerCaseChar(s[i])]

toUpperCase(s) == [i \in 1..Len(s) |-> toUpperCaseChar(s[i])]

RECURSIVE trimStart(_)
trimStart(s) ==
    IF Len(s) > 0 /\ IsSpace(s[1]) THEN trimStart(Tail(s)) ELSE s

RECURSIVE trimEnd(_)
trimEnd(s) ==
    IF Len(s) > 0 /\ IsSpace(s[Len(s)])
    THEN trimEnd(SubSeq(s, 1, Len(s) - 1))
    ELSE s

trim(s) == trimEnd(trimStart(s))

\* normalizeName(name): (name || "").trim().toLowerCase(); name is optional.
normalizeName(name) ==
    toLowerCase(trim(IF TruthyChars(name) THEN Val(name) ELSE << >>))

\* ------------------------------------------------------------- numbers

RECURSIVE Gcd(_, _)
Gcd(a, b) == IF b = 0 THEN a ELSE Gcd(b, a % b)

\* The quotient n / d of two naturals, d # 0, as a rational in lowest terms.
Quot(n, d) ==
    LET g == Gcd(n, d) IN [num |-> n \div g, den |-> d \div g]

\* The number n as a rational.
Num(n) == [num |-> n, den |-> 1]


\* ---------------------------------------------------------- derivation

\* randomMultiplier(): Math.floor(Math.random() * 1001) + 1000, for the
\* draw Math.random() = rnd / RandDen.
randomMultiplier(rnd) == ((rnd * 1001) \div RandDen) + 1000

\* computeEstimatedGDP of the app program: !population and !exchangeRate
\* are true of null and of 0.
computeEstimatedGDPApp(population, exchangeRate, rnd) ==
    IF ~TruthyNum(population) \/ ~TruthyNum(exchangeRate)
       \/ Val(exchangeRate) = 0
    THEN Null
    ELSE Some(Quot(Val(population) * randomMultiplier(rnd), Val(exchangeRate)))

\* computeEstimatedGDP of the server program: only null is tested.
computeEstimatedGDPServer(population, exchangeRate, rnd) ==
    IF IsNull(population) THEN Null
    ELSE IF IsNull(exchangeRate) THEN Null
    ELSE IF Val(exchangeRate) = 0 THEN Null
    ELSE Some(Quot(Val(population) * randomMultiplier(rnd), Val(exchangeRate)))

computeEstimatedGDP(v, population, exchangeRate, rnd) ==
    IF v = "app"
    THEN computeEstimatedGDPApp(population, exchangeRate, rnd)
    ELSE computeEstimatedGDPServer(population, exchangeRate, rnd)

\* The rate mapping of the cycle:
\* ratesData && (ratesData.rates || ratesData.conversion_rates) ? ... : {}.
\* A rates response is [truthy, rates, conversion_rates]; a mapping is a
\* function from currency codes to optional numbers.
EmptyRates == [k \in {} |-> Null]

RatesOf(ratesData) ==
    IF ~ratesData.truthy THEN EmptyRates
    ELSE IF ~IsNull(ratesData.rates) THEN Val(ratesData.rates)
    ELSE IF ~IsNull(ratesData.conversion_rates)
         THEN Val(ratesData.conversion_rates)
    ELSE EmptyRates

\* A faulty Skipped: the population test is missing.
SkippedWithoutName(c) == ~TruthyChars(OrNullChars(c.name))

\* The skip filter: !name || population == null.
Skipped(c) ==
    ~TruthyChars(OrNullChars(c.name)) \/ IsNull(c.population)

\* Array.isArray(c.currencies) && c.currencies.length > 0 &&
\* c.currencies[0] && c.currencies[0].code
HasCurrencyCode(c) ==
    /\ c.currencies.isArray
    /\ Len(c.currencies.items) > 0
    /\ c.currencies.items[1].truthy
    /\ TruthyChars(c.currencies.items[1].code)

\* String(c.currencies[0].code).trim().toUpperCase()
CurrencyCodeOf(c) == toUpperCase(trim(Val(c.currencies.items[1].code)))

SentinelNA == <<"N", "/", "A">>

\* currency_code, exchange_rate and estimated_gdp of the app program.
MergeApp(c, rates, rnd) ==
    LET currency_code ==
            IF HasCurrencyCode(c) THEN CurrencyCodeOf(c) ELSE SentinelNA
        found == currency_code # SentinelNA /\ currency_code \in DOMAIN rates
    IN  [currency_code |-> Some(currency_code),
         exchange_rate |-> IF found THEN rates[currency_code] ELSE Null,
         estimated_gdp |->
             IF found
             THEN computeEstimatedGDP("app", c.population,
                                      rates[currency_code], rnd)
             ELSE Some(Num(0))]

\* A faulty MergeServer: without a currency code estimated_gdp stays null.
MergeServerNullWithoutCode(c, rates, rnd) ==
    LET currency_code ==
            IF HasCurrencyCode(c) THEN Some(CurrencyCodeOf(c)) ELSE Null
    IN  IF TruthyChars(currency_code) /\ Val(currency_code) \in DOMAIN rates
        THEN [currency_code |-> currency_code,
              exchange_rate |-> rates[Val(currency_code)],
              estimated_gdp |->
                  computeEstimatedGDP("server", c.population,
                                      rates[Val(currency_code)], rnd)]
        ELSE [currency_code |-> currency_code,
              exchange_rate |-> Null,
              estimated_gdp |-> Null]

\* currency_code, exchange_rate and estimated_gdp of the server program.
MergeServer(c, rates, rnd) ==
    LET currency_code ==
            IF HasCurrencyCode(c) THEN Some(CurrencyCodeOf(c)) ELSE Null
    IN  IF ~TruthyChars(currency_code)
        THEN [currency_code |-> currency_code,
              exchange_rate |-> Null,
              estimated_gdp |-> Some(Num(0))]
        ELSE IF Val(currency_code) \in DOMAIN rates
        THEN [currency_code |-> currency_code,
              exchange_rate |-> rates[Val(currency_code)],
              estimated_gdp |->
                  computeEstimatedGDP("server", c.population,
                                      rates[Val(currency_code)], rnd)]
        ELSE [currency_code |-> currency_code,
              exchange_rate |-> Null,
              estimated_gdp |-> Null]

Merge(v, c, rates, rnd) ==
    IF v = "app" THEN MergeApp(c, rates, rnd) ELSE MergeServer(c, rates, rnd)

\* The parameters of the INSERT of one qualifying catalog entry.
Derive(v, c, rates, rnd, date) ==
    LET m == Merge(v, c, rates, rnd) IN
    [name              |-> Val(c.name),
     normalized_name   |-> normalizeName(c.name),
     capital           |-> OrNullStr(c.capital),
     region            |-> OrNullStr(c.region),
     population        |-> c.population,
     currency_code     |-> m.currency_code,
     exchange_rate     |-> m.exchange_rate,
     estimated_gdp     |-> m.estimated_gdp,
     flag_url          |-> OrNullStr(c.flag),
     last_refreshed_at |-> date]

\* ------------------------------------------------------------ inputs
\* The JSON values the two external sources may deliver.

NameAb == <<"A", "b">>

NameAbVariant == <<" ", "a", "B", " ">>

NameC == <<"C">>

CurrenciesAbsent == [isArray |-> FALSE, items |-> << >>]

CurrenciesEmpty == [isArray |-> TRUE, items |-> << >>]

CurrenciesNullFirst ==
    [isArray |-> TRUE, items |-> <<[truthy |-> FALSE, code |-> Null]>>]

CurrenciesNoCode ==
    [isArray |-> TRUE, items |-> <<[truthy |-> TRUE, code |-> Null]>>]

CurrenciesOf(code) ==
    [isArray |-> TRUE, items |-> <<[truthy |-> TRUE, code |-> Some(code)]>>]

Entry(name, population, capital, currencies) ==
    [json |-> "object", name |-> name, population |-> population,
     capital |-> capital, region |-> capital, flag |-> capital,
     currencies |-> currencies]

\* A null element of the countries array: reading c.name throws a TypeError.
NullEntry ==
    [json |-> "null", name |-> Null, population |-> Null, capital |-> Null,
     region |-> Null, flag |-> Null, currencies |-> CurrenciesAbsent]

EntryAbNg == Entry(Some(NameAb), Some(5), Some("x"), CurrenciesOf(<<" ", "n", "g">>))

EntryAbXx == Entry(Some(NameAbVariant), Some(0), Some(""), CurrenciesOf(<<"x", "x">>))

EntryC == Entry(Some(NameC), Some(7), Some("y"), CurrenciesAbsent)

EntryCEmpty == Entry(Some(NameC), Some(1), Null, CurrenciesEmpty)

EntryCNoCode == Entry(Some(NameC), Some(0), Null, CurrenciesNoCode)

EntryAbNullFirst == Entry(Some(NameAb), Some(1), Null, CurrenciesNullFirst)

EntryNoName == Entry(Null, Some(3), Some("x"), CurrenciesOf(<<"n", "g">>))

EntryEmptyName == Entry(Some(<< >>), Some(3), Null, CurrenciesAbsent)

EntryCNoPopulation == Entry(Some(NameC), Null, Some("z"), CurrenciesOf(<<"n", "g">>))

\* The responses of the countries source: a JSON value that is an array of
\* entries, or is not an array.
CountriesResponses ==
    { [isArray |-> FALSE, items |-> << >>],
      [isArray |-> TRUE, items |-> <<EntryNoName, EntryAbNg, EntryC>>],
      [isArray |-> TRUE, items |-> <<EntryCNoPopulation, EntryAbXx>>],
      [isArray |-> TRUE, items |-> <<EntryCEmpty, EntryAbNullFirst, EntryCNoCode>>],
      [isArray |-> TRUE, items |-> <<EntryAbNg, NullEntry>>],
      [isArray |-> TRUE, items |-> <<EntryNoName, EntryEmptyName>>] }

CodeNG == <<"N", "G">>

CodeXX == <<"X", "X">>

\* The responses of the exchange-rate source.
RatesResponses ==
    { [truthy |-> TRUE,
       rates |-> Some([k \in {CodeNG, CodeXX} |->
                          IF k = CodeNG THEN Some(3) ELSE Some(4)]),
       conversion_rates |-> Null],
      [truthy |-> TRUE,
       rates |-> Null,
       conversion_rates |-> Some([k \in {CodeNG, CodeXX} |->
                          IF k = CodeNG THEN Some(0) ELSE Null])],
      [truthy |-> TRUE, rates |-> Null, conversion_rates |-> Null] }

\* ------------------------------------------------------------- state

VARIABLES
    variant,            \* "app" or "server": which program of src/server.js runs
    refreshInProgress,  \* the single-flight guard
    countries,          \* the committed rows of table countries
    meta,               \* the committed value of meta['last_refreshed_at']
    now,                \* the wall clock read by new Date()
    arrivals,           \* refresh requests received so far
    h,                  \* h[r]: the locals and position of refresh handler r
    resp,               \* resp[r]: the response handler r has sent
    pre,                \* pre[r]: the committed store and the clock when cycle
                        \* r began
    disturbed,          \* disturbed[r]: since cycle r began, a DELETE or another
                        \* cycle's commit has changed the committed store
    tmpFile,            \* the file at CACHE_IMAGE_PATH + ".tmp"
    artifact,           \* the file at CACHE_IMAGE_PATH
    st,                 \* the locals and response of a GET /status handler
    del                 \* the response of the latest DELETE /countries/:name

vars == <<variant, refreshInProgress, countries, meta, now, arrivals, h, resp,
          pre, disturbed, tmpFile, artifact, st, del>>

Reqs == 1..NumReqs

Sources == {"Countries API", "Exchange Rates API"}

NoErr == [api |-> Null, name |-> "", stage |-> "none"]

\* The error the .catch wrappers of the two fetch promises throw.
ApiErr(src, stage) == [api |-> Some(src), name |-> "", stage |-> stage]

\* An error thrown by the storage driver.
DbErr(stage) == [api |-> Null, name |-> "Error", stage |-> stage]

\* The TypeError of reading a property of null.
TypeErr(stage) == [api |-> Null, name |-> "TypeError", stage |-> stage]

\* No response sent yet by a handler of /countries/:name.
NoReply == [status |-> 0, body |-> Null]

NoResponse == [status |-> 0, details |-> Null, total |-> 0, last |-> Null]

\* The locals of a handler that has not started.
IdleFrame ==
    [pc      |-> "idle",
     fetch   |-> [s \in Sources |-> "none"],
     timer   |-> [s \in Sources |-> "none"],
     render  |-> "none",
     data    |-> [s \in Sources |-> Null],
     conn    |-> "none",
     tx      |-> "none",
     idx     |-> 0,
     row     |-> Null,
     writes  |-> << >>,
     metaW   |-> Null,
     lastRef |-> Null,
     total   |-> 0,
     top5    |-> << >>,
     err     |-> NoErr,
     ops     |-> 0]

\* jsonError(res, status, message, details)
jsonError(status, details) ==
    [status |-> status, details |-> details, total |-> 0, last |-> Null]

\* The tail of both catch blocks: the response chosen from the error.
ErrorResponse(err) ==
    IF ~IsNull(err.api) THEN jsonError(503, err.api)
    ELSE IF err.name = "AbortError" THEN jsonError(503, Some("Fetch timed out"))
    ELSE jsonError(500, Null)

\* new Date().toISOString()
toISOString(t) == [iso |-> t]

\* The locals of a GET /status handler that has not started.  atCount and
\* atMeta record the store as it was at the handler's two queries.
IdleStatus ==
    [pc |-> "idle", status |-> 0, total |-> 0, lastRef |-> Null,
     atCount |-> Null, atMeta |-> Null]

Init ==
    /\ variant \in {"app", "server"}
    /\ refreshInProgress = FALSE
    /\ countries = {}
    /\ meta = Null
    /\ now = 0
    /\ arrivals = 0
    /\ h = [r \in Reqs |-> IdleFrame]
    /\ resp = [r \in Reqs |-> NoResponse]
    /\ pre = [r \in Reqs |-> [countries |-> {}, meta |-> Null, now |-> 0]]
    /\ disturbed = [r \in Reqs |-> FALSE]
    /\ tmpFile = Null
    /\ artifact = Null
    /\ st = IdleStatus
    /\ del = NoReply

\* What one step of handler r leaves: its locals, the guard, its response.
Out(frame, guard, response) ==
    [frame |-> frame, guard |-> guard, resp |-> response]

Apply(r, o) ==
    /\ h' = [h EXCEPT ![r] = o.frame]
    /\ refreshInProgress' = o.guard
    /\ resp' = [resp EXCEPT ![r] = o.resp]

\* A handler that holds the store in a cycle: between guard set and response.
Active(r) == h[r].pc \notin {"idle", "done"}

\* A handler that has set the guard and has not yet run its own
\* refreshInProgress = false: the app catch block runs it before it awaits
\* the rollback, the server's inner catch after.
HoldsGuard(r) == Active(r) /\ ~(variant = "app" /\ h[r].pc = "rollback")

\* ------------------------------------------------------- catch blocks

\* A faulty ThrowOuter: the catch block does not clear the guard.
ThrowOuterKeepsGuard(f, err) ==
    Out([f EXCEPT !.pc = "done", !.err = err], refreshInProgress,
        ErrorResponse(err))

\* A throw with no connection obtained: the app catch with conn undefined,
\* the server's outer catch.
ThrowOuter(f, err) ==
    Out([f EXCEPT !.pc = "done", !.err = err], FALSE, ErrorResponse(err))

\* A throw after getConnection resolved.  app: the guard is cleared, then
\* rollback is awaited.  server: the inner catch awaits rollback first.
ThrowInTx(f, err) ==
    IF variant = "app"
    THEN Out([f EXCEPT !.pc = "rollback", !.err = err, !.ops = @ + 1],
             FALSE, NoResponse)
    ELSE Out([f EXCEPT !.pc = "rollback", !.err = err, !.ops = @ + 1],
             refreshInProgress, NoResponse)

Throw(f, err) ==
    IF f.conn = "held" THEN ThrowInTx(f, err) ELSE ThrowOuter(f, err)

\* The rollback has settled (its failure is swallowed): release, respond.
AfterRollback(f) ==
    IF variant = "app"
    THEN Out([f EXCEPT !.pc = "done", !.conn = "released",
                       !.tx = IF @ = "open" THEN "rolledback" ELSE @],
             refreshInProgress, ErrorResponse(f.err))
    ELSE Out([f EXCEPT !.pc = "done", !.conn = "released",
                       !.tx = IF @ = "open" THEN "rolledback" ELSE @],
             FALSE, jsonError(500, Null))

\* The success exit: guard cleared, 200 sent; the server's finally releases.
FinishSuccess(f) ==
    Out([f EXCEPT !.pc = "done",
                  !.conn = IF variant = "server" THEN "released" ELSE @],
        FALSE,
        [status |-> 200, details |-> Null, total |-> f.total,
         last |-> f.lastRef])

\* --------------------------------------------------------- the store

\* The unique key the INSERT ... ON DUPLICATE KEY UPDATE collides on.
DuplicateKey(x, row) == x.normalized_name = row.normalized_name

\* A faulty UpsertRow: the statement collides on name, not on
\* normalized_name.
UpsertRowByName(table, row) ==
    IF \E x \in table : x.name = row.name
    THEN { IF x.name = row.name
           THEN [row EXCEPT !.normalized_name = x.normalized_name]
           ELSE x : x \in table }
    ELSE table \cup {row}

\* A faulty UpsertRow: on a collision a null parameter keeps the column's
\* old value.
UpsertRowKeepsOldForNull(table, row) ==
    LET Keep(old, new) == IF IsNull(new) THEN old ELSE new IN
    IF \E x \in table : DuplicateKey(x, row)
    THEN { IF DuplicateKey(x, row)
           THEN [row EXCEPT !.normalized_name = x.normalized_name,
                            !.capital = Keep(x.capital, @),
                            !.region = Keep(x.region, @),
                            !.flag_url = Keep(x.flag_url, @),
                            !.currency_code = Keep(x.currency_code, @),
                            !.exchange_rate = Keep(x.exchange_rate, @),
                            !.estimated_gdp = Keep(x.estimated_gdp, @)]
           ELSE x : x \in table }
    ELSE table \cup {row}

\* INSERT ... ON DUPLICATE KEY UPDATE: the UPDATE list names every column
\* of the row but normalized_name.
UpsertRow(table, row) ==
    IF \E x \in table : DuplicateKey(x, row)
    THEN { IF DuplicateKey(x, row)
           THEN [row EXCEPT !.normalized_name = x.normalized_name]
           ELSE x : x \in table }
    ELSE table \cup {row}

\* The statements of a transaction take effect, in order, at its commit.
RECURSIVE ApplyWrites(_, _)
ApplyWrites(table, writes) ==
    IF writes = << >> THEN table
    ELSE ApplyWrites(UpsertRow(table, Head(writes)), Tail(writes))

\* a < b for two rationals.
RatLess(a, b) == a.num * b.den < b.num * a.den

\* SELECT name, estimated_gdp FROM countries WHERE estimated_gdp IS NOT NULL
\* ORDER BY estimated_gdp DESC LIMIT 5: every order the query may return.
TopFive(table) ==
    LET S == {x \in table : ~IsNull(x.estimated_gdp)}
        n == Cardinality(S)
        k == IF n < 5 THEN n ELSE 5
        orders == {q \in [1..n -> S] :
                     /\ \A i, j \in 1..n : i # j => q[i] # q[j]
                     /\ \A i \in 1..n : \A j \in (i + 1)..n :
                          ~RatLess(Val(q[i].estimated_gdp),
                                   Val(q[j].estimated_gdp))}
    IN  {[i \in 1..k |-> [name |-> q[i].name,
                          estimated_gdp |-> q[i].estimated_gdp]] : q \in orders}

\* DELETE FROM countries WHERE normalized_name = ?
DeleteRows(table, normalized) ==
    {x \in table : x.normalized_name # normalized}

\* SELECT ... FROM countries WHERE normalized_name = ?
SelectByName(table, normalized) ==
    {x \in table : x.normalized_name = normalized}

\* The columns the SELECT of GET /countries/:name lists: all but
\* normalized_name.
Columns(x) == [f \in DOMAIN x \ {"normalized_name"} |-> x[f]]

\* jsonError(res, 404, "Country not found")
NotFound == [status |-> 404, body |-> Some("Country not found")]

\* GET /countries/:name: the response for parameter name over the committed
\* table.  rows[0] is the only row: the key on normalized_name is unique.
GetCountry(table, name) ==
    LET rows == SelectByName(table, normalizeName(Some(name)))
    IN  IF rows = {} THEN NotFound
        ELSE [status |-> 200, body |-> Some(Columns(CHOOSE x \in rows : TRUE))]

\* SELECT value FROM meta WHERE `key` = 'last_refreshed_at', as GET /status
\* reads it: r.length ? r[0].value : null.
StatusValue(m) == m

\* The image generateSummaryImage writes: the count, the timestamp and the
\* top list printed on it.
Rendering(totalCount, top5, timestampIso) ==
    [complete |-> TRUE, total |-> totalCount, top5 |-> top5,
     timestamp |-> timestampIso]

\* A file whose write stopped midway.
PartialFile ==
    [complete |-> FALSE, total |-> 0, top5 |-> << >>, timestamp |-> Null]

\* GET /countries/image: fs.access, then sendFile of the canonical path.
ImageResponse(file) ==
    IF IsNull(file) THEN [status |-> 404, body |-> Null]
    ELSE [status |-> 200, body |-> file]

\* ----------------------------------------------------- the refresh loop

\* The request slots are interchangeable: a request takes the first free one.
FreeSlot(r) ==
    /\ h[r].pc \in {"idle", "done"}
    /\ \A q \in Reqs : q < r => h[q].pc \notin {"idle", "done"}

\* The first index from i on of an entry the loop does not skip (a null
\* entry throws and is not skipped); Len(items) + 1 when there is none.
RECURSIVE NextIndex(_, _)
NextIndex(items, i) ==
    IF i > Len(items) THEN i
    ELSE IF items[i].json = "null" THEN i
    ELSE IF Skipped(items[i]) THEN NextIndex(items, i + 1)
    ELSE i

\* The loop from entry i up to its next await: the execute of the next
\* qualifying entry, or, past the last entry, the execute of the metadata
\* write.
LoopFrom(f, i, rnd) ==
    LET items == Val(f.data["Countries API"]).items
        rates == RatesOf(Val(f.data["Exchange Rates API"]))
        j     == NextIndex(items, i)
    IN  IF j > Len(items)
        THEN Out([f EXCEPT !.pc = "meta", !.idx = j, !.row = Null,
                           !.lastRef = Some(toISOString(now)),
                           !.ops = @ + 1],
                 refreshInProgress, NoResponse)
        ELSE IF items[j].json = "null"
        THEN Throw([f EXCEPT !.idx = j, !.row = Null], TypeErr("entry"))
        ELSE Out([f EXCEPT !.pc = "upsert", !.idx = j,
                           !.row = Some(Derive(variant, items[j], rates,
                                               rnd, now)),
                           !.ops = @ + 1],
                 refreshInProgress, NoResponse)

\* A faulty AfterFetches: the Array.isArray check is missing.
AfterFetchesAnyShape(f) ==
    Out([f EXCEPT !.pc = "getconn", !.ops = @ + 1],
        refreshInProgress, NoResponse)

\* Promise.all has resolved: the shape check, then getConnection.
AfterFetches(f) ==
    IF ~Val(f.data["Countries API"]).isArray
    THEN ThrowOuter(f, ApiErr("Countries API", "shape"))
    ELSE Out([f EXCEPT !.pc = "getconn", !.ops = @ + 1],
             refreshInProgress, NoResponse)

\* A fetch of handler r has settled, leaving frame f.  While the handler
\* awaits Promise.all, the first rejection throws and the last success
\* resumes it; later the settlement has no listener.
FetchSettled(r, f, src) ==
    IF h[r].pc # "fetch"
    THEN Out([f EXCEPT !.data[src] = Null], refreshInProgress, resp[r])
    ELSE IF f.fetch[src] = "fail" THEN ThrowOuter(f, ApiErr(src, "fetch"))
    ELSE IF \A s \in Sources : f.fetch[s] = "ok" THEN AfterFetches(f)
    ELSE Out(f, refreshInProgress, resp[r])

\* ------------------------------------------------------------ actions

\* Frame of everything a handler step does not touch unless it says so.
StoreUnchanged == UNCHANGED <<countries, meta>>

FilesUnchanged == UNCHANGED <<tmpFile, artifact>>

GhostUnchanged == UNCHANGED <<pre, disturbed>>

\* A faulty Reject: the rejected request clears the guard on its way out.
RejectClearsGuard(r) ==
    /\ FreeSlot(r)
    /\ arrivals < MaxArrivals
    /\ refreshInProgress
    /\ arrivals' = arrivals + 1
    /\ Apply(r, Out([IdleFrame EXCEPT !.pc = "done"], FALSE,
                    jsonError(409, Null)))
    /\ UNCHANGED <<variant, st, del, now>>
    /\ StoreUnchanged /\ FilesUnchanged /\ GhostUnchanged

\* POST /countries/refresh arrives while the guard is set: 409.
Reject(r) ==
    /\ FreeSlot(r)
    /\ arrivals < MaxArrivals
    /\ refreshInProgress
    /\ arrivals' = arrivals + 1
    /\ Apply(r, Out([IdleFrame EXCEPT !.pc = "done"], refreshInProgress,
                    jsonError(409, Null)))
    /\ UNCHANGED <<variant, st, del, now>>
    /\ StoreUnchanged /\ FilesUnchanged /\ GhostUnchanged

\* A faulty Accept: the guard is not set before the handler first awaits.
AcceptWithoutSettingGuard(r) ==
    /\ FreeSlot(r)
    /\ arrivals < MaxArrivals
    /\ ~refreshInProgress
    /\ arrivals' = arrivals + 1
    /\ Apply(r, Out([IdleFrame EXCEPT !.pc = "fetch",
                                      !.fetch = [s \in Sources |-> "hdr"],
                                      !.timer = [s \in Sources |-> "armed"]],
                    refreshInProgress, NoResponse))
    /\ pre' = [pre EXCEPT ![r] = [countries |-> countries, meta |-> meta,
                                  now |-> now]]
    /\ disturbed' = [disturbed EXCEPT ![r] = FALSE]
    /\ UNCHANGED <<variant, st, del, now>>
    /\ StoreUnchanged /\ FilesUnchanged

\* POST /countries/refresh arrives while the guard is clear: the guard is
\* set and both fetches are started, up to the await of Promise.all.
Accept(r) ==
    /\ FreeSlot(r)
    /\ arrivals < MaxArrivals
    /\ ~refreshInProgress
    /\ arrivals' = arrivals + 1
    /\ Apply(r, Out([IdleFrame EXCEPT !.pc = "fetch",
                                      !.fetch = [s \in Sources |-> "hdr"],
                                      !.timer = [s \in Sources |-> "armed"]],
                    TRUE, NoResponse))
    /\ pre' = [pre EXCEPT ![r] = [countries |-> countries, meta |-> meta,
                                  now |-> now]]
    /\ disturbed' = [disturbed EXCEPT ![r] = FALSE]
    /\ UNCHANGED <<variant, st, del, now>>
    /\ StoreUnchanged /\ FilesUnchanged

\* await fetch(url) resolves with a response: clearTimeout(id) runs before
\* anything else; a response that is not ok throws.
FetchResponse(r, src) ==
    /\ h[r].fetch[src] = "hdr"
    /\ \E ok \in BOOLEAN :
         Apply(r, FetchSettled(r,
                    [h[r] EXCEPT !.fetch[src] = IF ok THEN "body" ELSE "fail",
                                 !.timer[src] = "cleared"],
                    src))
    /\ UNCHANGED <<variant, st, del, now, arrivals>>
    /\ StoreUnchanged /\ FilesUnchanged /\ GhostUnchanged

\* The timer fires before the response: controller.abort() rejects the
\* fetch, and the catch block clears the timer.
FetchTimeout(r, src) ==
    /\ h[r].fetch[src] = "hdr"
    /\ h[r].timer[src] = "armed"
    /\ Apply(r, FetchSettled(r, [h[r] EXCEPT !.fetch[src] = "fail",
                                             !.timer[src] = "cleared"], src))
    /\ UNCHANGED <<variant, st, del, now, arrivals>>
    /\ StoreUnchanged /\ FilesUnchanged /\ GhostUnchanged

\* await res.json() settles: the parsed value, or a rejection.
FetchBody(r, src) ==
    /\ h[r].fetch[src] = "body"
    /\ \/ \E v \in (IF src = "Countries API" THEN CountriesResponses
                                            ELSE RatesResponses) :
            Apply(r, FetchSettled(r,
                       [h[r] EXCEPT !.fetch[src] = "ok", !.data[src] = Some(v)],
                       src))
       \/ Apply(r, FetchSettled(r, [h[r] EXCEPT !.fetch[src] = "fail"], src))
    /\ UNCHANGED <<variant, st, del, now, arrivals>>
    /\ StoreUnchanged /\ FilesUnchanged /\ GhostUnchanged

\* await pool.getConnection() settles; on success beginTransaction is issued.
GetConnection(r) ==
    /\ h[r].pc = "getconn"
    /\ \/ Apply(r, Out([h[r] EXCEPT !.pc = "begin", !.conn = "held",
                                    !.ops = @ + 1],
                       refreshInProgress, NoResponse))
       \/ Apply(r, Throw(h[r], DbErr("getconn")))
    /\ UNCHANGED <<variant, st, del, now, arrivals>>
    /\ StoreUnchanged /\ FilesUnchanged /\ GhostUnchanged

\* await conn.beginTransaction() settles; on success the loop starts.
BeginTransaction(r) ==
    /\ h[r].pc = "begin"
    /\ \/ \E rnd \in RandSamples :
            Apply(r, LoopFrom([h[r] EXCEPT !.tx = "open"], 1, rnd))
       \/ Apply(r, Throw(h[r], DbErr("begin")))
    /\ UNCHANGED <<variant, st, del, now, arrivals>>
    /\ StoreUnchanged /\ FilesUnchanged /\ GhostUnchanged

\* A faulty ExecuteUpsert: the INSERT runs outside the transaction and is
\* visible at once.
ExecuteUpsertOutsideTransaction(r) ==
    /\ h[r].pc = "upsert"
    /\ \/ /\ \E rnd \in RandSamples :
               Apply(r, LoopFrom([h[r] EXCEPT
                                     !.writes = Append(@, Val(h[r].row))],
                                 h[r].idx + 1, rnd))
          /\ countries' = UpsertRow(countries, Val(h[r].row))
       \/ /\ Apply(r, Throw(h[r], DbErr("upsert")))
          /\ countries' = countries
    /\ UNCHANGED <<variant, st, del, now, arrivals, meta>>
    /\ FilesUnchanged /\ GhostUnchanged

\* await conn.execute(INSERT ...) settles; on success the loop goes on.
ExecuteUpsert(r) ==
    /\ h[r].pc = "upsert"
    /\ \/ \E rnd \in RandSamples :
            Apply(r, LoopFrom([h[r] EXCEPT !.writes = Append(@, Val(h[r].row))],
                              h[r].idx + 1, rnd))
       \/ Apply(r, Throw(h[r], DbErr("upsert")))
    /\ UNCHANGED <<variant, st, del, now, arrivals>>
    /\ StoreUnchanged /\ FilesUnchanged /\ GhostUnchanged

\* A faulty ExecuteMeta: the metadata write runs outside the transaction
\* and is visible at once.
ExecuteMetaOutsideTransaction(r) ==
    /\ h[r].pc = "meta"
    /\ \/ /\ Apply(r, Out([h[r] EXCEPT !.pc = "commit",
                                       !.metaW = h[r].lastRef, !.ops = @ + 1],
                          refreshInProgress, NoResponse))
          /\ meta' = h[r].lastRef
       \/ /\ Apply(r, Throw(h[r], DbErr("meta")))
          /\ meta' = meta
    /\ UNCHANGED <<variant, st, del, now, arrivals, countries>>
    /\ FilesUnchanged /\ GhostUnchanged

\* await conn.execute(INSERT INTO meta ...) settles; on success commit is
\* issued.
ExecuteMeta(r) ==
    /\ h[r].pc = "meta"
    /\ \/ Apply(r, Out([h[r] EXCEPT !.pc = "commit", !.metaW = h[r].lastRef,
                                    !.ops = @ + 1],
                       refreshInProgress, NoResponse))
       \/ Apply(r, Throw(h[r], DbErr("meta")))
    /\ UNCHANGED <<variant, st, del, now, arrivals>>
    /\ StoreUnchanged /\ FilesUnchanged /\ GhostUnchanged

\* await conn.commit() succeeds: the transaction's statements become
\* visible together; the count query is issued.
CommitOk(r) ==
    /\ h[r].pc = "commit"
    /\ countries' = ApplyWrites(countries, h[r].writes)
    /\ meta' = h[r].metaW
    /\ Apply(r, Out([h[r] EXCEPT !.pc = "count", !.tx = "committed",
                                 !.ops = @ + 1],
                    refreshInProgress, NoResponse))
    /\ disturbed' = [q \in Reqs |-> IF q # r /\ h[q].pc # "idle" THEN TRUE
                                    ELSE disturbed[q]]
    /\ UNCHANGED <<variant, st, del, now, arrivals, pre>>
    /\ FilesUnchanged

\* A faulty CommitFails: the rejection of the commit is ignored and the
\* handler goes on to the count query.
CommitFailsIgnored(r) ==
    /\ h[r].pc = "commit"
    /\ Apply(r, Out([h[r] EXCEPT !.pc = "count", !.ops = @ + 1],
                    refreshInProgress, NoResponse))
    /\ UNCHANGED <<variant, st, del, now, arrivals>>
    /\ StoreUnchanged /\ FilesUnchanged /\ GhostUnchanged

\* await conn.commit() rejects.
CommitFails(r) ==
    /\ h[r].pc = "commit"
    /\ Apply(r, Throw(h[r], DbErr("commit")))
    /\ UNCHANGED <<variant, st, del, now, arrivals>>
    /\ StoreUnchanged /\ FilesUnchanged /\ GhostUnchanged

\* await pool.query(SELECT COUNT(*) ...) settles.
QueryCount(r) ==
    /\ h[r].pc = "count"
    /\ \/ Apply(r, Out([h[r] EXCEPT !.pc = "top",
                                    !.total = Cardinality(countries),
                                    !.ops = @ + 1],
                       refreshInProgress, NoResponse))
       \/ Apply(r, Throw(h[r], DbErr("count")))
    /\ UNCHANGED <<variant, st, del, now, arrivals>>
    /\ StoreUnchanged /\ FilesUnchanged /\ GhostUnchanged

\* await pool.query(SELECT name, estimated_gdp ...) settles; on success
\* generateSummaryImage is called.
QueryTop(r) ==
    /\ h[r].pc = "top"
    /\ \/ \E t \in TopFive(countries) :
            Apply(r, Out([h[r] EXCEPT !.pc = "render_write", !.top5 = t,
                                      !.render = "started"],
                         refreshInProgress, NoResponse))
       \/ Apply(r, Throw(h[r], DbErr("top")))
    /\ UNCHANGED <<variant, st, del, now, arrivals>>
    /\ StoreUnchanged /\ FilesUnchanged /\ GhostUnchanged

\* A faulty RenderWrite: the image is written to the canonical path.
RenderWriteInPlace(r) ==
    /\ h[r].pc = "render_write"
    /\ \/ /\ artifact' = Some(Rendering(h[r].total, h[r].top5, h[r].lastRef))
          /\ Apply(r, FinishSuccess([h[r] EXCEPT !.render = "done"]))
       \/ /\ artifact' \in {artifact, Some(PartialFile)}
          /\ Apply(r, FinishSuccess([h[r] EXCEPT !.render = "failed"]))
    /\ UNCHANGED <<variant, st, del, now, arrivals, tmpFile>>
    /\ StoreUnchanged /\ GhostUnchanged

\* A faulty RenderWrite: a failure of the rendering is not swallowed and
\* reaches the handler's catch block.
RenderWriteFailureThrows(r) ==
    /\ h[r].pc = "render_write"
    /\ \/ /\ tmpFile' = Some(Rendering(h[r].total, h[r].top5, h[r].lastRef))
          /\ Apply(r, Out([h[r] EXCEPT !.pc = "render_rename",
                                       !.render = "written"],
                          refreshInProgress, NoResponse))
       \/ /\ tmpFile' \in {tmpFile, Some(PartialFile)}
          /\ Apply(r, Throw([h[r] EXCEPT !.render = "failed"],
                            DbErr("render")))
    /\ UNCHANGED <<variant, st, del, now, arrivals, artifact>>
    /\ StoreUnchanged /\ GhostUnchanged

\* generateSummaryImage up to image.writeAsync(tmpPath): on success the
\* temporary file holds the rendering.  A failure (mkdir, create, loadFont,
\* or the write itself, which may leave a partial temporary file) is
\* swallowed by the handler, which then responds.
RenderWrite(r) ==
    /\ h[r].pc = "render_write"
    /\ \/ /\ tmpFile' = Some(Rendering(h[r].total, h[r].top5, h[r].lastRef))
          /\ Apply(r, Out([h[r] EXCEPT !.pc = "render_rename",
                                       !.render = "written"],
                          refreshInProgress, NoResponse))
       \/ /\ tmpFile' \in {tmpFile, Some(PartialFile)}
          /\ Apply(r, FinishSuccess([h[r] EXCEPT !.render = "failed"]))
    /\ UNCHANGED <<variant, st, del, now, arrivals, artifact>>
    /\ StoreUnchanged /\ GhostUnchanged

\* await fs.rename(tmpPath, CACHE_IMAGE_PATH) settles; the handler responds.
RenderRename(r) ==
    /\ h[r].pc = "render_rename"
    /\ \/ /\ ~IsNull(tmpFile)
          /\ artifact' = tmpFile
          /\ tmpFile' = Null
          /\ Apply(r, FinishSuccess([h[r] EXCEPT !.render = "done"]))
       \/ /\ UNCHANGED <<tmpFile, artifact>>
          /\ Apply(r, FinishSuccess([h[r] EXCEPT !.render = "failed"]))
    /\ UNCHANGED <<variant, st, del, now, arrivals>>
    /\ StoreUnchanged /\ GhostUnchanged

\* await conn.rollback() settles (a rejection is swallowed): a transaction
\* that is still open is discarded; the connection is released and the
\* error response is sent.
Rollback(r) ==
    /\ h[r].pc = "rollback"
    /\ Apply(r, AfterRollback(h[r]))
    /\ UNCHANGED <<variant, st, del, now, arrivals>>
    /\ StoreUnchanged /\ FilesUnchanged /\ GhostUnchanged

\* A faulty DeleteCountry: the statement is given the parameter as sent,
\* not normalized.
DeleteCountryByRawName(name) ==
    LET affectedRows == Cardinality(SelectByName(countries, name))
    IN  /\ countries' = DeleteRows(countries, name)
        /\ del' = IF affectedRows = 0 THEN NotFound
                  ELSE [status |-> 200, body |-> Some("Deleted")]
        /\ disturbed' = [q \in Reqs |->
                            IF h[q].pc # "idle" /\ countries' # countries
                            THEN TRUE ELSE disturbed[q]]
        /\ UNCHANGED <<variant, st, refreshInProgress, meta, now, arrivals, h,
                       resp, pre>>
        /\ FilesUnchanged

\* DELETE /countries/:name, whole handler: one awaited statement, then the
\* response chosen from result.affectedRows.
DeleteCountry(name) ==
    LET normalized == normalizeName(Some(name))
        affectedRows == Cardinality(SelectByName(countries, normalized))
    IN  /\ countries' = DeleteRows(countries, normalized)
        /\ del' = IF affectedRows = 0 THEN NotFound
                  ELSE [status |-> 200, body |-> Some("Deleted")]
        /\ disturbed' = [q \in Reqs |->
                            IF h[q].pc # "idle" /\ countries' # countries
                            THEN TRUE ELSE disturbed[q]]
        /\ UNCHANGED <<variant, st, refreshInProgress, meta, now, arrivals, h,
                       resp, pre>>
        /\ FilesUnchanged

\* Time passes.  Only the loop reads the clock (new Date()), so only time
\* that passes before one of its steps is observed.
Tick ==
    /\ now < MaxClock
    /\ \E r \in Reqs : h[r].pc = "upsert"
    /\ now' = now + 1
    /\ UNCHANGED <<variant, st, del, refreshInProgress, countries, meta, arrivals, h,
                   resp, pre, disturbed, tmpFile, artifact>>

DeleteParams == {NameAbVariant}

Next ==
    \/ \E r \in Reqs : Reject(r)
    \/ \E r \in Reqs : Accept(r)
    \/ \E r \in Reqs, src \in Sources : FetchResponse(r, src)
    \/ \E r \in Reqs, src \in Sources : FetchTimeout(r, src)
    \/ \E r \in Reqs, src \in Sources : FetchBody(r, src)
    \/ \E r \in Reqs : GetConnection(r)
    \/ \E r \in Reqs : BeginTransaction(r)
    \/ \E r \in Reqs : ExecuteUpsert(r)
    \/ \E r \in Reqs : ExecuteMeta(r)
    \/ \E r \in Reqs : CommitOk(r)
    \/ \E r \in Reqs : CommitFails(r)
    \/ \E r \in Reqs : QueryCount(r)
    \/ \E r \in Reqs : QueryTop(r)
    \/ \E r \in Reqs : RenderWrite(r)
    \/ \E r \in Reqs : RenderRename(r)
    \/ \E r \in Reqs : Rollback(r)
    \/ \E name \in DeleteParams : DeleteCountry(name)
    \/ Tick

Spec == Init /\ [][Next]_vars

\* The steps of handler r after its first await.
HandlerStep(r) ==
    \/ \E src \in Sources : FetchResponse(r, src)
    \/ \E src \in Sources : FetchTimeout(r, src)
    \/ \E src \in Sources : FetchBody(r, src)
    \/ GetConnection(r)
    \/ BeginTransaction(r)
    \/ ExecuteUpsert(r)
    \/ ExecuteMeta(r)
    \/ CommitOk(r)
    \/ CommitFails(r)
    \/ QueryCount(r)
    \/ QueryTop(r)
    \/ RenderWrite(r)
    \/ RenderRename(r)
    \/ Rollback(r)

\* One refresh cycle, the requests that arrive during it, deletes and time.
CycleNext ==
    \/ \E r \in Reqs : Reject(r)
    \/ \E r \in Reqs : arrivals = 0 /\ Accept(r)
    \/ \E r \in Reqs : HandlerStep(r)
    \/ \E name \in DeleteParams : DeleteCountry(name)
    \/ Tick

\* Every awaited external call and storage operation eventually settles.
FairSpec ==
    Init /\ [][CycleNext]_vars /\ \A r \in Reqs : WF_vars(HandlerStep(r))

\* GET /status, first query: await pool.query(SELECT COUNT(*) ...) settles.
StatusCount ==
    /\ st.pc = "idle"
    /\ \/ st' = [st EXCEPT !.pc = "meta",
                            !.total = Cardinality(countries),
                            !.atCount = Some([countries |-> countries,
                                              meta |-> meta])]
       \/ st' = [st EXCEPT !.pc = "done", !.status = 500]
    /\ UNCHANGED <<variant, del, refreshInProgress, countries, meta, now,
                   arrivals, h, resp, pre, disturbed, tmpFile, artifact>>

\* GET /status, second query: await pool.execute(SELECT value FROM meta ...)
\* settles and the handler responds.
StatusMeta ==
    /\ st.pc = "meta"
    /\ \/ st' = [st EXCEPT !.pc = "done", !.status = 200,
                            !.lastRef = StatusValue(meta),
                            !.atMeta = Some([countries |-> countries,
                                             meta |-> meta])]
       \/ st' = [st EXCEPT !.pc = "done", !.status = 500]
    /\ UNCHANGED <<variant, del, refreshInProgress, countries, meta, now,
                   arrivals, h, resp, pre, disturbed, tmpFile, artifact>>

\* One refresh cycle with a GET /status request interleaved.
ReadNext ==
    \/ \E r \in Reqs : Reject(r)
    \/ \E r \in Reqs : arrivals = 0 /\ Accept(r)
    \/ \E r \in Reqs : HandlerStep(r)
    \/ \E name \in DeleteParams : DeleteCountry(name)
    \/ Tick
    \/ StatusCount
    \/ StatusMeta

ReadSpec == Init /\ [][ReadNext]_vars

\* ---------------------------------------------------- reading a cycle

\* The countries array cycle r works on; empty when it has none.
ItemsOf(r) ==
    LET d == h[r].data["Countries API"] IN
    IF ~IsNull(d) /\ Val(d).isArray THEN Val(d).items ELSE << >>

\* The rate mapping cycle r works on.
RateMapOf(r) ==
    LET d == h[r].data["Exchange Rates API"] IN
    IF IsNull(d) THEN EmptyRates ELSE RatesOf(Val(d))

\* A qualifying catalog entry: it has a name and a population.
Qualifies(c) ==
    /\ c.json = "object"
    /\ ~IsNull(c.name) /\ Val(c.name) # << >>
    /\ ~IsNull(c.population)

\* An entry with no currency code: currencies absent or not an array,
\* empty, or its first element null or without a code.
NoCurrencyCode(c) ==
    \/ ~c.currencies.isArray
    \/ Len(c.currencies.items) = 0
    \/ ~c.currencies.items[1].truthy
    \/ IsNull(c.currencies.items[1].code)

\* The indices of the qualifying entries of a countries array, in order.
RECURSIVE QualifyingFrom(_, _)
QualifyingFrom(items, i) ==
    IF i > Len(items) THEN << >>
    ELSE IF Qualifies(items[i])
         THEN <<i>> \o QualifyingFrom(items, i + 1)
    ELSE QualifyingFrom(items, i + 1)

Qualifying(r) == QualifyingFrom(ItemsOf(r), 1)

\* The normalized names of the qualifying entries of cycle r.
QualifyingKeys(r) ==
    {normalizeName(ItemsOf(r)[Qualifying(r)[k]].name) :
        k \in 1..Len(Qualifying(r))}

\* Cycle r has committed and nobody else has written the store since it
\* began.
CommittedAlone(r) == h[r].tx = "committed" /\ ~disturbed[r]

\* The k-th qualifying entry of cycle r is the last one of its name.
LastOfName(r, k) ==
    \A k2 \in (k + 1)..Len(Qualifying(r)) :
        normalizeName(ItemsOf(r)[Qualifying(r)[k2]].name)
            # normalizeName(ItemsOf(r)[Qualifying(r)[k]].name)

\* P holds of the record stored for every qualifying entry of a committed
\* cycle: of the row written for it and, while the store is as the cycle
\* left it, of the visible row of its name.
StoredRecords(P(_, _, _)) ==
    \A r \in Reqs :
        h[r].tx = "committed" =>
            \A k \in 1..Len(Qualifying(r)) :
                LET c == ItemsOf(r)[Qualifying(r)[k]] IN
                /\ k <= Len(h[r].writes)
                /\ P(c, RateMapOf(r), h[r].writes[k])
                /\ (CommittedAlone(r) /\ LastOfName(r, k)) =>
                       \E x \in countries :
                           /\ x.normalized_name = normalizeName(c.name)
                           /\ P(c, RateMapOf(r), x)

\* -------------------------------------------------------------- claims

StoreIsPre(r) == countries = pre[r].countries /\ meta = pre[r].meta

\* C1: at most one refresh cycle is executing at any time: no handler is
\* between its guard set and its response (rollback and release included)
\* while another one is.
C1_OneCycleAtATime ==
    \A r, q \in Reqs : r # q => ~(Active(r) /\ Active(q))

\* C2: a refresh request that arrives while the guard is set is answered
\* 409, starts no fetch and no storage operation, and changes nothing but
\* its own response: the guard, the store, the files and every other
\* handler are as before, so the running cycle goes on from the same state.
C2_RejectedRequestChangesNothing ==
    [][(arrivals' = arrivals + 1 /\ refreshInProgress) =>
          \E r \in Reqs :
              /\ resp'[r].status = 409
              /\ h'[r].pc = "done"
              /\ h'[r].ops = 0
              /\ h'[r].conn = "none"
              /\ \A src \in Sources : h'[r].fetch[src] = "none"
              /\ refreshInProgress'
              /\ UNCHANGED <<countries, meta, tmpFile, artifact, now, pre,
                             disturbed>>
              /\ \A q \in Reqs \ {r} : h'[q] = h[q] /\ resp'[q] = resp[q]]_vars

\* C2 witness: a request was answered 409 and the cycle that was running
\* then went on to commit and respond 200.
C2_Witness ==
    \E r, q \in Reqs :
        /\ resp[r].status = 409
        /\ resp[q].status = 200
        /\ h[q].tx = "committed"

\* C3: every accepted cycle returns to Idle: a handler that has responded
\* to an accepted request has left the guard clear, and a set guard is
\* always eventually cleared.
C3_GuardEventuallyCleared ==
    /\ [](\A r \in Reqs :
            resp[r].status \in {200, 500, 503} => ~refreshInProgress)
    /\ (refreshInProgress ~> ~refreshInProgress)

\* C3 witness: a cycle ended in a storage failure after an upsert had been
\* executed, and the guard is clear.
C3_Witness ==
    \E r \in Reqs :
        /\ resp[r].status = 500
        /\ h[r].err.stage = "meta"
        /\ Len(h[r].writes) > 0
        /\ ~refreshInProgress

\* Source src of cycle r has failed: its fetch was rejected, or it is the
\* countries source and its value is not an array.
SourceFailed(r, src) ==
    \/ h[r].fetch[src] = "fail"
    \/ /\ src = "Countries API"
       /\ ~IsNull(h[r].data[src])
       /\ ~Val(h[r].data[src]).isArray

\* C4: a cycle in which a fetch fails or the countries value is not an
\* array responds 503 naming a source that failed; it obtains no
\* connection, opens no transaction, issues no storage operation, and the
\* store is as it was when the cycle began.
C4_ExternalFailure ==
    \A r \in Reqs :
        /\ (h[r].pc \notin {"idle", "fetch"} /\ resp[r].status # 409
            /\ \E src \in Sources : SourceFailed(r, src))
               => resp[r].status = 503
        /\ resp[r].status = 503 =>
              /\ \E src \in Sources :
                    resp[r].details = Some(src) /\ SourceFailed(r, src)
              /\ h[r].conn = "none"
              /\ h[r].tx = "none"
              /\ h[r].ops = 0
              /\ ~disturbed[r] => StoreIsPre(r)

\* C4 witness: the exchange-rate fetch failed after the countries value
\* had arrived, and the cycle responded 503 naming it.
C4_Witness ==
    \E r \in Reqs :
        /\ resp[r].status = 503
        /\ resp[r].details = Some("Exchange Rates API")
        /\ h[r].fetch["Countries API"] = "ok"
        /\ pre[r].countries # {}

\* C5: when an upsert, the metadata write or the commit of a cycle fails,
\* the visible records and metadata are, from the failure on, those of the
\* beginning of the cycle, however many upserts had been executed.
C5_StorageFailureRollsBack ==
    \A r \in Reqs :
        (h[r].err.stage \in {"upsert", "meta", "commit"} /\ ~disturbed[r])
            => StoreIsPre(r)

\* C5 witness: the commit failed after two upserts and the metadata write,
\* over a store that held records, and the cycle has responded.
C5_Witness ==
    \E r \in Reqs :
        /\ h[r].pc = "done"
        /\ h[r].err.stage = "commit"
        /\ Len(h[r].writes) >= 2
        /\ ~disturbed[r]
        /\ pre[r].countries # {}

\* C6: whenever a refresh responds 503 or 500, the store holds the
\* pre-cycle records and metadata, failures of the queries after the
\* commit included.
C6_NoPartialSuccess ==
    \A r \in Reqs :
        (resp[r].status \in {500, 503} /\ ~disturbed[r]) => StoreIsPre(r)

\* A currency code is present in entry c and is no key of the mapping.
Unmapped(c, rates) ==
    ~NoCurrencyCode(c) /\ CurrencyCodeOf(c) \notin DOMAIN rates

UnmappedRecord(c, rates, x) ==
    Unmapped(c, rates) =>
        (IsNull(x.exchange_rate) /\ IsNull(x.estimated_gdp))

\* C7: the record stored for a qualifying entry whose currency code is
\* present but is no key of the rate mapping has exchange_rate null and
\* estimated_gdp null.
C7_UnmappedCodeGivesNull == StoredRecords(UnmappedRecord)

NoCodeRecord(c, rates, x) ==
    NoCurrencyCode(c) =>
        (x.estimated_gdp = Some(Num(0)) /\ IsNull(x.exchange_rate))

\* C8: the record stored for a qualifying entry with no currency code
\* (currencies absent or not an array, empty, first element null or
\* without code) has estimated_gdp exactly 0 and exchange_rate null.
C8_NoCodeGivesZero == StoredRecords(NoCodeRecord)

\* C8 witness: over a record stored for an entry without currencies, a
\* cycle has committed entries with an empty currencies array, with a null
\* first element and with a first element without code, and their records
\* are visible.
C8_Witness ==
    \E r \in Reqs :
        /\ CommittedAlone(r)
        /\ ItemsOf(r) = <<EntryCEmpty, EntryAbNullFirst, EntryCNoCode>>
        /\ Len(h[r].writes) = 3
        /\ \E x \in pre[r].countries :
              /\ x.name = NameC /\ x.population = EntryC.population
              /\ x.estimated_gdp = Some(Num(0))
        /\ \E x \in countries :
              /\ x.name = NameC /\ x.population = EntryCNoCode.population
              /\ x.estimated_gdp = Some(Num(0))
        /\ \E x \in countries :
              /\ x.name = NameAb /\ x.population = EntryAbNullFirst.population
              /\ x.estimated_gdp = Some(Num(0))

MappedRecord(c, rates, x) ==
    (~NoCurrencyCode(c) /\ CurrencyCodeOf(c) \in DOMAIN rates) =>
        LET rate == rates[CurrencyCodeOf(c)] IN
        IF IsNull(rate) \/ Val(rate) = 0
        THEN IsNull(x.estimated_gdp)
        ELSE /\ x.exchange_rate = rate
             /\ ~IsNull(x.estimated_gdp)
             /\ \E m \in 1000..2000 :
                   Val(x.estimated_gdp).num * Val(rate)
                       = Val(c.population) * m * Val(x.estimated_gdp).den

\* C9: the record stored for a qualifying entry with population p whose
\* currency code maps to a rate r # 0 has exchange_rate r and
\* estimated_gdp p * m / r for an integer m in 1000..2000; when the mapped
\* rate is 0 or null, estimated_gdp is null.
C9_MappedRateGivesGdp == StoredRecords(MappedRecord)

\* C10: a cycle changes only records whose name is that of a qualifying
\* entry: the visible records of every other name (skipped entries, names
\* not in the catalog) are those of the beginning of the cycle, and a
\* cycle that responds 200 has stored a record for every qualifying entry.
C10_OnlyQualifyingNamesChange ==
    \A r \in Reqs :
        (h[r].pc # "idle" /\ resp[r].status # 409 /\ ~disturbed[r]) =>
            /\ {x \in countries : x.normalized_name \notin QualifyingKeys(r)}
                 = {x \in pre[r].countries :
                        x.normalized_name \notin QualifyingKeys(r)}
            /\ resp[r].status = 200 =>
                  \A key \in QualifyingKeys(r) :
                      \E x \in countries : x.normalized_name = key

\* C10 witness: a cycle whose catalog has an entry without population for
\* a name that had a record, and a qualifying entry of another name,
\* responded 200: the first record is as before, the second was written.
C10_Witness ==
    \E r \in Reqs :
        /\ resp[r].status = 200
        /\ ~disturbed[r]
        /\ ItemsOf(r) = <<EntryCNoPopulation, EntryAbXx>>
        /\ \E x \in pre[r].countries :
              x.normalized_name = normalizeName(Some(NameC)) /\ x \in countries
        /\ \E x \in countries :
              x.name = NameAbVariant /\ x \notin pre[r].countries

C12_UpsertOverwritesEveryField ==
    \A r \in Reqs :
        CommittedAlone(r) =>
            \A k \in 1..Len(Qualifying(r)) :
                LastOfName(r, k) =>
                    LET c == ItemsOf(r)[Qualifying(r)[k]] IN
                    /\ k <= Len(h[r].writes)
                    /\ \E x \in countries :
                          /\ x.normalized_name = trim(toLowerCase(Val(c.name)))
                          /\ x.capital = OrNullStr(c.capital)
                          /\ x.region = OrNullStr(c.region)
                          /\ x.flag_url = OrNullStr(c.flag)
                          /\ x.population = c.population
                          /\ x.currency_code = h[r].writes[k].currency_code
                          /\ x.exchange_rate = h[r].writes[k].exchange_rate
                          /\ x.estimated_gdp = h[r].writes[k].estimated_gdp

\* C12 witness: a record that had a capital and population 7 was
\* overwritten by a cycle that lists its name twice, without capital: the
\* record has no capital and the population of the second entry.
C12_Witness ==
    \E r \in Reqs :
        /\ resp[r].status = 200
        /\ ~disturbed[r]
        /\ Len(Qualifying(r)) = 3
        /\ \E x \in pre[r].countries :
              x.name = NameC /\ x.capital = EntryC.capital
        /\ \E x \in countries :
              /\ x.name = NameC /\ IsNull(x.capital)
              /\ x.population = EntryCNoCode.population

\* C13: when the rendering fails after the commit, the handler still
\* responds 200 with the count and timestamp of the committed cycle, the
\* committed records and metadata stay, and the guard is released (it is
\* set again only by another cycle).
C13_RenderFailureIsSwallowed ==
    \A r \in Reqs :
        h[r].render = "failed" =>
            /\ h[r].pc = "done"
            /\ h[r].tx = "committed"
            /\ resp[r].status = 200
            /\ resp[r].total = h[r].total
            /\ resp[r].last = h[r].lastRef
            /\ ~disturbed[r] =>
                  /\ countries = ApplyWrites(pre[r].countries, h[r].writes)
                  /\ meta = h[r].metaW
                  /\ resp[r].total = Cardinality(countries)
            /\ refreshInProgress => \E q \in Reqs \ {r} : Active(q)

\* C13 witness: a cycle that committed two records responded 200 although
\* its rendering stopped in the middle of writing the temporary file.
C13_Witness ==
    \E r \in Reqs :
        /\ h[r].render = "failed"
        /\ tmpFile = Some(PartialFile)
        /\ resp[r].status = 200
        /\ Len(h[r].writes) >= 2
        /\ ~disturbed[r]
        /\ ~refreshInProgress

\* C14: the metadata value changes only in the commit step of a cycle,
\* together with that cycle's records, to that cycle's timestamp; every
\* commit writes it; it is never deleted; and a 200 response carries the
\* value GET /status reads (which then stays until another commit).
C14_MetadataChangesOnlyAtCommit ==
    /\ [][meta' # meta =>
             \E r \in Reqs :
                 /\ h[r].pc = "commit" /\ h'[r].tx = "committed"
                 /\ meta' = h[r].lastRef
                 /\ countries' = ApplyWrites(countries, h[r].writes)]_vars
    /\ [][\A r \in Reqs :
             (h[r].tx # "committed" /\ h'[r].tx = "committed") =>
                 (meta' = h[r].lastRef /\ ~IsNull(meta'))]_vars
    /\ [][~IsNull(meta) => ~IsNull(meta')]_vars
    /\ [][\A r \in Reqs :
             (resp[r].status # 200 /\ resp'[r].status = 200) =>
                 resp'[r].last = StatusValue(meta')]_vars

\* C14 witness: a cycle responded 200 with a timestamp that replaced an
\* older one, and GET /status reads that timestamp.
C14_Witness ==
    \E r \in Reqs :
        /\ resp[r].status = 200
        /\ ~IsNull(pre[r].meta)
        /\ pre[r].meta # meta
        /\ StatusValue(meta) = resp[r].last

\* C15: a cycle in which no entry qualifies and that responds 200 reports
\* total_countries = 0, has overwritten the metadata timestamp, and has
\* attempted the rendering with count 0.
C15_ZeroQualifyingCycle ==
    \A r \in Reqs :
        (resp[r].status = 200 /\ Len(Qualifying(r)) = 0) =>
            /\ resp[r].total = 0
            /\ h[r].render # "none" /\ h[r].total = 0
            /\ ~disturbed[r] => meta = resp[r].last

\* C16: the canonical path is absent or holds one complete rendering made
\* by a finished render step, so GET /countries/image never sends a
\* partial file; the path changes only by the rename of a completely
\* written temporary file, and a render that fails leaves it as it was.
C16_ArtifactIsAbsentOrComplete ==
    /\ [](/\ IsNull(artifact) \/ Val(artifact).complete
          /\ ImageResponse(artifact).status = 200 =>
                 Val(ImageResponse(artifact).body).complete)
    /\ [][artifact' # artifact =>
             \E r \in Reqs :
                 /\ h[r].pc = "render_rename" /\ h'[r].render = "done"
                 /\ artifact' = Some(Rendering(h[r].total, h[r].top5,
                                               h[r].lastRef))]_vars
    /\ [][\A r \in Reqs :
             (h[r].render # "failed" /\ h'[r].render = "failed") =>
                 artifact' = artifact]_vars

\* C16 witness: with an artifact in place, a later render stopped in the
\* middle of writing the temporary file; the artifact is still there.
C16_Witness ==
    \E r \in Reqs :
        /\ h[r].render = "failed"
        /\ tmpFile = Some(PartialFile)
        /\ ~IsNull(artifact)
        /\ ImageResponse(artifact).status = 200

\* The committed store is that of the beginning of cycle r, or that of its
\* commit.
StoreIsPreOrPost(r) ==
    \/ StoreIsPre(r)
    \/ /\ h[r].tx = "committed"
       /\ countries = ApplyWrites(pre[r].countries, h[r].writes)
       /\ meta = h[r].metaW

\* While a cycle runs and nobody else writes, the committed store is the
\* pre-cycle store or the post-commit store.
C17_StoreIsNeverPartial ==
    \A r \in Reqs : (Active(r) /\ ~disturbed[r]) => StoreIsPreOrPost(r)

\* C17: a reader interleaved with a cycle sees the pre-cycle store or the
\* post-commit store: the committed store is one of the two at every
\* step, and the count and timestamp GET /status returns are those of the
\* store as it was at one moment of the request.
C17_ReadersSeePreOrPost ==
    /\ C17_StoreIsNeverPartial
    /\ st.status = 200 =>
          \/ /\ st.total = Cardinality(Val(st.atCount).countries)
             /\ st.lastRef = StatusValue(Val(st.atCount).meta)
          \/ /\ st.total = Cardinality(Val(st.atMeta).countries)
             /\ st.lastRef = StatusValue(Val(st.atMeta).meta)

\* C18: a request passes the guard check only with the guard clear, and
\* the same step sets the guard and starts the fetches, before any other
\* handler runs; so at most one request is past the check with the guard
\* it set still set, and the guard is set exactly while there is one.
C18_GuardCheckAndSetAreOneStep ==
    /\ [][\A r \in Reqs :
             (~Active(r) /\ h'[r].pc \notin {"idle", "done"}) =>
                 /\ ~refreshInProgress
                 /\ refreshInProgress'
                 /\ h'[r].ops = 0
                 /\ \A src \in Sources : h'[r].fetch[src] = "hdr"
                 /\ \A q \in Reqs \ {r} : h'[q] = h[q]]_vars
    /\ [](/\ \A r, q \in Reqs :
                (HoldsGuard(r) /\ HoldsGuard(q)) => r = q
          /\ refreshInProgress <=> \E r \in Reqs : HoldsGuard(r))

\* C18 witness: a request was turned away by the check while the request
\* that had passed it was in its transaction.
C18_Witness ==
    \E r, q \in Reqs :
        /\ HoldsGuard(r) /\ h[r].tx = "open"
        /\ resp[q].status = 409
        /\ refreshInProgress

\* C19: a handler issues storage operations only after both fetches have
\* succeeded; it attempts the aggregate queries and the rendering only
\* after its commit; and a cycle that responds 503 or 500 has attempted
\* no rendering.
C19_StagesInOrder ==
    \A r \in Reqs :
        /\ h[r].ops > 0 => \A src \in Sources : h[r].fetch[src] = "ok"
        /\ (\/ h[r].pc \in {"count", "top", "render_write", "render_rename"}
            \/ h[r].err.stage \in {"count", "top"}
            \/ h[r].render # "none") => h[r].tx = "committed"
        /\ h[r].render # "none" => h[r].err = NoErr
        /\ resp[r].status \in {500, 503} => h[r].render = "none"

\* C19 witness: a cycle committed, its count query succeeded, its
\* top-five query failed, and it responded 500 without rendering.
C19_Witness ==
    \E r \in Reqs :
        /\ h[r].err.stage = "top"
        /\ h[r].tx = "committed"
        /\ resp[r].status = 500
        /\ h[r].render = "none"

\* C20: an external call that has not delivered its complete JSON value
\* (it awaits the response or the body) has its timer armed.
C20_CallBoundedByTimeout ==
    \A r \in Reqs : \A src \in Sources :
        h[r].fetch[src] \in {"hdr", "body"} => h[r].timer[src] = "armed"

\* C21: all records written by one cycle carry the same last_refreshed_at,
\* the time at which the cycle started, however much time passes between
\* its upserts.
C21_OneTimestampPerCycle ==
    \A r \in Reqs :
        \A k \in 1..Len(h[r].writes) :
            /\ h[r].writes[k].last_refreshed_at = pre[r].now
            /\ h[r].writes[k].last_refreshed_at
                   = h[r].writes[1].last_refreshed_at

\* C23: a handler that has responded holds no pooled connection: the
\* connection it obtained has been released.
C23_ConnectionReleased ==
    \A r \in Reqs :
        h[r].pc = "done" => h[r].conn \in {"none", "released"}

\* The parameters GET /countries/:name is asked with: spellings of the two
\* stored names and a name that is never stored.
LookupParams ==
    {NameAb, NameAbVariant, NameC, <<" ", "c">>, <<"a", "B", " ">>, <<"a">>}

\* Parameter p differs from name n at most in letter case and surrounding
\* whitespace.
SameUpToCaseAndSpace(p, n) == trim(toLowerCase(p)) = trim(toLowerCase(n))

\* The stored records whose normalized_name is the normalized parameter.
KeyedBy(p) == {x \in countries : x.normalized_name = trim(toLowerCase(p))}

\* The stored records whose name is a spelling of parameter p.
SpelledAs(p) == {x \in countries : SameUpToCaseAndSpace(p, x.name)}

\* GET /countries/:name answers with the record whose name the parameter
\* spells, and with 404 when no record is keyed by the parameter.
LookupByName ==
    \A p \in LookupParams :
        /\ \A x \in SpelledAs(p) :
               GetCountry(countries, p)
                   = [status |-> 200, body |-> Some(Columns(x))]
        /\ KeyedBy(p) = {} => GetCountry(countries, p).status = 404

\* A step in which a DELETE /countries/:name handler has run: it has
\* answered, or rows have gone from the table.
DeleteReplied ==
    \/ del' # del
    \/ countries' \subseteq countries /\ countries' # countries

\* DELETE /countries/:name removes exactly the record whose name the
\* parameter spells and answers 200; with no record keyed by the parameter
\* it answers 404 and the table stays as it is.  Either way the meta row,
\* the guard, the refresh handlers and the image stay as they are.
DeleteByName ==
    DeleteReplied =>
        \E p \in DeleteParams :
            /\ \A x \in SpelledAs(p) :
                   /\ del'.status = 200
                   /\ countries' = countries \ {x}
            /\ KeyedBy(p) = {} =>
                   /\ del'.status = 404
                   /\ countries' = countries
            /\ del'.status \in {200, 404}
            /\ UNCHANGED <<meta, refreshInProgress, h, resp, tmpFile, artifact>>

=============================================================================
